---- MODULE Spec2Model ----
(***************************************************************************)
(* A model of the rain front end: the recursive-descent parser             *)
(* (src/parser.rs), the structural semantic checker (src/semck.rs) and the *)
(* module pipeline (src/module.rs).                                        *)
(*                                                                         *)
(* The parser functions are operators over a token sequence `ts` and a     *)
(* cursor `p` (the index of the token that it.peek() would return; the     *)
(* iterator is exhausted when p > Len(ts)).  Every parser function returns *)
(* a record [ok, val, pos]: Ok(val) or Err(val) and the cursor it leaves.  *)
(***************************************************************************)
EXTENDS Integers, Sequences, FiniteSets, TLC

(***************************************************************************)
(* Tokens and results                                                      *)
(***************************************************************************)

\* a lexer::Token: its kind and its literal payload ("" when it has none)
Tok(k) == [kind |-> k, val |-> ""]
Lit(k, v) == [kind |-> k, val |-> v]

\* a codemap::Spanned<Token>
Spanned(t, s) == [node |-> t, span |-> s]

Ok(v, p) == [ok |-> TRUE, val |-> v, pos |-> p]
Err(e, p) == [ok |-> FALSE, val |-> e, pos |-> p]

UnexpectedToken(t) == [kind |-> "UnexpectedToken", tok |-> t]
UnexpectedEOF == [kind |-> "UnexpectedEOF"]
UnusedPlaces == [kind |-> "UnusedPlaces"]

\* it.peek() is Some(..)
HasTok(ts, p) == p <= Len(ts)

(***************************************************************************)
(* AST constructors (enum Node, enum Place, enum Var)                      *)
(***************************************************************************)
Leaf(k) == [kind |-> k]
LitNode(k, v) == [kind |-> k, val |-> v]
Block(ls) == [kind |-> "Block", list |-> ls]
Catch(ls) == [kind |-> "Catch", list |-> ls]
Stmt(n) == [kind |-> "Stmt", node |-> n]
Assn(l, r) == [kind |-> "Assn", lhs |-> l, rhs |-> r]
If(c, b, e) == [kind |-> "If", cond |-> c, body |-> b, els |-> e]
ElseIf(c, b) == [kind |-> "ElseIf", cond |-> c, body |-> b]
Else(b) == [kind |-> "Else", body |-> b]
For(d, e, b) == [kind |-> "For", decl |-> d, expr |-> e, body |-> b]
While(e, b) == [kind |-> "While", expr |-> e, body |-> b]
Loop(b) == [kind |-> "Loop", body |-> b]
Return(v) == [kind |-> "Return", val |-> v]
Index(l, r) == [kind |-> "Index", lhs |-> l, rhs |-> r]
Method(o, m, a) == [kind |-> "Method", owner |-> o, method |-> m, args |-> a]
Func(ps, b) == [kind |-> "Func", params |-> ps, body |-> b]
Lambda(ps, e) == [kind |-> "Lambda", params |-> ps, expr |-> e]
Call(f, a) == [kind |-> "Call", func |-> f, args |-> a]
BinExpr(l, o, r) == [kind |-> "BinExpr", lhs |-> l, op |-> o, rhs |-> r]
UnExpr(v, o) == [kind |-> "UnExpr", val |-> v, op |-> o]

PlaceSingle(n) == [kind |-> "Single", node |-> n]
PlaceMulti(ps) == [kind |-> "Multi", places |-> ps]
VarSingle(x) == [kind |-> "Single", name |-> x]
VarMulti(vs) == [kind |-> "Multi", vars |-> vs]

(***************************************************************************)
(* Token helpers                                                           *)
(***************************************************************************)
peek_token(ts, p, kind) ==
  IF HasTok(ts, p) THEN ts[p].node = Tok(kind) ELSE FALSE

\* returns whether the token matched and the cursor afterwards
use_token(ts, p, kind) ==
  IF HasTok(ts, p)
    THEN [hit |-> ts[p].node = Tok(kind),
          pos |-> IF ts[p].node = Tok(kind) THEN p + 1 ELSE p]
    ELSE [hit |-> FALSE, pos |-> p]

require_token(ts, p, kind) ==
  IF HasTok(ts, p)
    THEN IF ts[p].node = Tok(kind)
           THEN Ok(<<>>, p + 1)
           ELSE Err(UnexpectedToken(ts[p].node), p)
    ELSE Err(UnexpectedEOF, p)

OpLeft(n) == [assoc |-> "Left", rank |-> n]
OpRight(n) == [assoc |-> "Right", rank |-> n]
OpNone == [assoc |-> "None", rank |-> 0]

op_precedence(op) ==
  CASE op.kind \in {"Add", "Sub"} -> OpLeft(10)
    [] op.kind \in {"Div", "Mul"} -> OpLeft(20)
    [] op.kind = "Car" -> OpRight(30)
    [] OTHER -> OpNone

(***************************************************************************)
(* The combination step of parse_bin_expr                                  *)
(***************************************************************************)

\* top_binds with the first arm's guard written `n > m`
top_binds_strict(cur_prec, prec) ==
  \/ cur_prec.assoc = "Left" /\ prec.assoc = "Left" /\ cur_prec.rank > prec.rank
  \/ cur_prec.assoc = "Right" /\ prec.assoc = "Right" /\ cur_prec.rank > prec.rank
  \/ cur_prec.assoc = "Right" /\ prec.assoc = "Left" /\ cur_prec.rank >= prec.rank
  \/ cur_prec.assoc = "Left" /\ prec.assoc = "Right" /\ cur_prec.rank >= prec.rank

\* the four guarded arms of `match (cur_prec, prec)` that wrap the whole
\* tree built so far (n is the current operator's rank, m the new one's)
top_binds(cur_prec, prec) ==
  \/ cur_prec.assoc = "Left" /\ prec.assoc = "Left" /\ cur_prec.rank >= prec.rank
  \/ cur_prec.assoc = "Right" /\ prec.assoc = "Right" /\ cur_prec.rank > prec.rank
  \/ cur_prec.assoc = "Right" /\ prec.assoc = "Left" /\ cur_prec.rank >= prec.rank
  \/ cur_prec.assoc = "Left" /\ prec.assoc = "Right" /\ cur_prec.rank >= prec.rank

\* `expr = match (break_left, expr.clone()) {..}`: the new tree, or brk when
\* one of the "these should never happen" arms leaves the loop
combine(break_left, expr, tok, rhs) ==
  IF break_left /\ expr.kind = "BinExpr"
    THEN LET cur_prec == op_precedence(expr.op)
             prec == op_precedence(tok)
         IN  IF prec.assoc = "None" \/ cur_prec.assoc = "None"
               THEN [brk |-> TRUE, expr |-> expr]
               ELSE IF top_binds(cur_prec, prec)
                 THEN [brk |-> FALSE, expr |-> BinExpr(expr, tok, rhs)]
                 ELSE [brk |-> FALSE,
                       expr |-> BinExpr(expr.lhs, expr.op,
                                        BinExpr(expr.rhs, tok, rhs))]
    ELSE [brk |-> FALSE, expr |-> BinExpr(expr, tok, rhs)]

(***************************************************************************)
(* The recursive-descent parser                                            *)
(***************************************************************************)
\* go(f, ts, p, a) is the call of the parser function f at cursor p; a holds
\* the locals of a loop that is entered again
RECURSIVE go(_, _, _, _)

\* parse_quark taking the token it rejects
parse_quark_eats(ts, p) ==
  IF HasTok(ts, p)
    THEN LET tok == ts[p].node
         IN  CASE tok.kind = "Null" -> Ok(Leaf("Null"), p + 1)
               [] tok.kind = "Bool" -> Ok(LitNode("Bool", tok.val), p + 1)
               [] tok.kind = "Float" -> Ok(LitNode("Float", tok.val), p + 1)
               [] tok.kind = "Int" -> Ok(LitNode("Int", tok.val), p + 1)
               [] tok.kind = "Str" -> Ok(LitNode("Str", tok.val), p + 1)
               [] tok.kind = "Name" -> Ok(LitNode("Name", tok.val), p + 1)
               [] tok.kind = "Table" -> Ok(Leaf("Table"), p + 1)
               [] OTHER -> Err(UnexpectedToken(tok), p + 1)
    ELSE Err(UnexpectedEOF, p)

parse_quark(ts, p) ==
  IF HasTok(ts, p)
    THEN LET tok == ts[p].node
         IN  CASE tok.kind = "Null" -> Ok(Leaf("Null"), p + 1)
               [] tok.kind = "Bool" -> Ok(LitNode("Bool", tok.val), p + 1)
               [] tok.kind = "Float" -> Ok(LitNode("Float", tok.val), p + 1)
               [] tok.kind = "Int" -> Ok(LitNode("Int", tok.val), p + 1)
               [] tok.kind = "Str" -> Ok(LitNode("Str", tok.val), p + 1)
               [] tok.kind = "Name" -> Ok(LitNode("Name", tok.val), p + 1)
               [] tok.kind = "Table" -> Ok(Leaf("Table"), p + 1)
               [] OTHER -> Err(UnexpectedToken(tok), p)
    ELSE Err(UnexpectedEOF, p)

parse_name_as_str(ts, p) ==
  IF HasTok(ts, p)
    THEN IF ts[p].node.kind = "Name"
           THEN Ok(LitNode("Str", ts[p].node.val), p + 1)
           ELSE Err(UnexpectedToken(ts[p].node), p)
    ELSE Err(UnexpectedEOF, p)

parse_name(ts, p) ==
  IF HasTok(ts, p)
    THEN IF ts[p].node.kind = "Name"
           THEN Ok(LitNode("Name", ts[p].node.val), p + 1)
           ELSE Err(UnexpectedToken(ts[p].node), p)
    ELSE Err(UnexpectedEOF, p)

RECURSIVE fn_params_loop(_, _, _)
fn_params_loop(ts, p, params) ==
  IF HasTok(ts, p) /\ ts[p].node.kind = "Name"
    THEN LET ps == Append(params, ts[p].node.val)
             u == use_token(ts, p + 1, "Com")
         IN  IF ~u.hit THEN Ok(ps, u.pos) ELSE fn_params_loop(ts, u.pos, ps)
    ELSE Ok(params, p)

parse_fn_params(ts, p) == fn_params_loop(ts, p, <<>>)

RECURSIVE parse_decl(_, _), decl_pieces(_, _, _)
decl_pieces(ts, p, pieces) ==
  LET r == parse_decl(ts, p)
  IN  IF ~r.ok THEN r
      ELSE LET ps == Append(pieces, r.val)
               u == use_token(ts, r.pos, "Com")
           IN  IF ~u.hit THEN Ok(ps, u.pos) ELSE decl_pieces(ts, u.pos, ps)

parse_decl(ts, p) ==
  IF HasTok(ts, p)
    THEN CASE ts[p].node.kind = "Sql" ->
                LET r == decl_pieces(ts, p + 1, <<>>)
                IN  IF ~r.ok THEN r
                    ELSE LET q == require_token(ts, r.pos, "Sqr")
                         IN  IF ~q.ok THEN q ELSE Ok(VarMulti(r.val), q.pos)
           [] ts[p].node.kind = "Name" -> Ok(VarSingle(ts[p].node.val), p + 1)
           [] OTHER -> Err(UnexpectedToken(ts[p].node), p)
    ELSE Err(UnexpectedEOF, p)

parse_ml_expr(ts, p) ==
  IF HasTok(ts, p)
    THEN CASE ts[p].node.kind = "Func" ->
                LET a == require_token(ts, p + 1, "Pal")
                IN  IF ~a.ok THEN a ELSE
                LET params == parse_fn_params(ts, a.pos)
                IN  IF ~params.ok THEN params ELSE
                LET b == require_token(ts, params.pos, "Par")
                IN  IF ~b.ok THEN b ELSE
                LET body == go("parse_block", ts, b.pos, <<>>)
                IN  IF ~body.ok THEN body
                    ELSE Ok(Func(params.val, body.val), body.pos)
           [] ts[p].node.kind = "Catch" ->
                LET block == go("parse_block", ts, p + 1, <<>>)
                IN  IF ~block.ok THEN block ELSE Ok(Catch(block.val), block.pos)
           [] OTHER -> go("parse_il_expr", ts, p, <<>>)
    ELSE Err(UnexpectedEOF, p)

parse_il_expr(ts, p) ==
  IF HasTok(ts, p)
    THEN IF ts[p].node.kind = "Or"
           THEN LET params == parse_fn_params(ts, p + 1)
                IN  IF ~params.ok THEN params ELSE
                LET a == require_token(ts, params.pos, "Or")
                IN  IF ~a.ok THEN a ELSE
                LET expr == go("parse_il_expr", ts, a.pos, <<>>)
                IN  IF ~expr.ok THEN expr
                    ELSE Ok(Lambda(params.val, expr.val), expr.pos)
           ELSE go("parse_bin_expr", ts, p, <<>>)
    ELSE Err(UnexpectedEOF, p)

\* one pass of `while let Some(&tok) = it.peek()` and the passes after it
bin_loop(ts, p, expr, break_left) ==
  IF ~HasTok(ts, p) THEN Ok(expr, p)
  ELSE LET tok == ts[p].node
       IN  IF op_precedence(tok).assoc = "None" THEN Ok(expr, p)
           ELSE LET rhs == go("parse_un_expr", ts, p + 1, <<>>)
                IN  IF ~rhs.ok THEN rhs
                    ELSE LET c == combine(break_left, expr, tok, rhs.val)
                         IN  IF c.brk THEN Ok(c.expr, rhs.pos)
                             ELSE go("bin_loop", ts, rhs.pos,
                                     [expr |-> c.expr, break_left |-> TRUE])

\* parse_bin_expr free to break the left side from the first operator on
parse_bin_expr_break(ts, p) ==
  LET expr == go("parse_un_expr", ts, p, <<>>)
  IN  IF ~expr.ok THEN expr
      ELSE go("bin_loop", ts, expr.pos, [expr |-> expr.val, break_left |-> TRUE])

parse_bin_expr(ts, p) ==
  LET expr == go("parse_un_expr", ts, p, <<>>)
  IN  IF ~expr.ok THEN expr
      ELSE go("bin_loop", ts, expr.pos, [expr |-> expr.val, break_left |-> FALSE])

parse_un_expr(ts, p) ==
  IF HasTok(ts, p)
    THEN IF ts[p].node.kind \in {"Sub", "Not", "Neg"}
           THEN LET val == go("parse_un_expr", ts, p + 1, <<>>)
                IN  IF ~val.ok THEN val
                    ELSE Ok(UnExpr(val.val, ts[p].node), val.pos)
           ELSE go("parse_simple", ts, p, <<>>)
    ELSE Err(UnexpectedEOF, p)

\* `while !peek_token(it, Token::Par)` of parse_fn_args
fn_args_loop(ts, p, args) ==
  IF peek_token(ts, p, "Par") THEN Ok(args, p)
  ELSE LET arg == go("parse_il_expr", ts, p, <<>>)
       IN  IF ~arg.ok THEN arg
           ELSE LET as == Append(args, arg.val)
                    u == use_token(ts, arg.pos, "Com")
                IN  IF ~u.hit THEN Ok(as, u.pos) ELSE go("fn_args_loop", ts, u.pos, as)

parse_fn_args(ts, p) ==
  LET a == require_token(ts, p, "Pal")
  IN  IF ~a.ok THEN a ELSE
  LET args == go("fn_args_loop", ts, a.pos, <<>>)
  IN  IF ~args.ok THEN args ELSE
  LET b == require_token(ts, args.pos, "Par")
  IN  IF ~b.ok THEN b ELSE Ok(args.val, b.pos)

\* `while let Some(&tok) = it.peek()` of parse_simple
simple_loop(ts, p, atom) ==
  IF ~HasTok(ts, p) THEN Ok(atom, p)
  ELSE CASE ts[p].node.kind = "Col" ->
              LET method == parse_name_as_str(ts, p + 1)
              IN  IF ~method.ok THEN method ELSE
              LET args == go("parse_fn_args", ts, method.pos, <<>>)
              IN  IF ~args.ok THEN args
                  ELSE go("simple_loop", ts, args.pos, Method(atom, method.val, args.val))
         [] ts[p].node.kind = "Pal" ->
              LET args == go("parse_fn_args", ts, p, <<>>)
              IN  IF ~args.ok THEN args
                  ELSE go("simple_loop", ts, args.pos, Call(atom, args.val))
         [] ts[p].node.kind = "Sql" ->
              LET idx == go("parse_bin_expr", ts, p + 1, <<>>)
              IN  IF ~idx.ok THEN idx ELSE
              LET a == require_token(ts, idx.pos, "Sqr")
              IN  IF ~a.ok THEN a
                  ELSE go("simple_loop", ts, a.pos, Index(atom, idx.val))
         [] ts[p].node.kind = "Dot" ->
              LET idx == parse_name_as_str(ts, p + 1)
              IN  IF ~idx.ok THEN idx
                  ELSE go("simple_loop", ts, idx.pos, Index(atom, idx.val))
         [] OTHER -> Ok(atom, p)

parse_simple(ts, p) ==
  LET atom == go("parse_atom", ts, p, <<>>)
  IN  IF ~atom.ok THEN atom ELSE go("simple_loop", ts, atom.pos, atom.val)

parse_atom(ts, p) ==
  IF HasTok(ts, p)
    THEN IF ts[p].node.kind = "Pal"
           THEN LET out == go("parse_bin_expr", ts, p + 1, <<>>)
                IN  IF ~out.ok THEN out ELSE
                LET a == require_token(ts, out.pos, "Par")
                IN  IF ~a.ok THEN a ELSE Ok(out.val, a.pos)
           ELSE parse_quark(ts, p)
    ELSE Err(UnexpectedEOF, p)

place_pieces(ts, p, pieces) ==
  LET r == go("parse_place", ts, p, <<>>)
  IN  IF ~r.ok THEN r
      ELSE LET ps == Append(pieces, r.val)
               u == use_token(ts, r.pos, "Com")
           IN  IF ~u.hit THEN Ok(ps, u.pos) ELSE go("place_pieces", ts, u.pos, ps)

parse_place(ts, p) ==
  IF HasTok(ts, p)
    THEN IF ts[p].node.kind = "Sql"
           THEN LET r == go("place_pieces", ts, p + 1, <<>>)
                IN  IF ~r.ok THEN r ELSE
                LET q == require_token(ts, r.pos, "Sqr")
                IN  IF ~q.ok THEN q ELSE Ok(PlaceMulti(r.val), q.pos)
           ELSE LET node == go("parse_il_expr", ts, p, <<>>)
                IN  IF ~node.ok THEN node
                    ELSE Ok(PlaceSingle(node.val), node.pos)
    ELSE Err(UnexpectedEOF, p)

\* parse_assn with an exhausted iterator handled like a token that is not `=`
parse_assn_no_eof(ts, p) ==
  LET place == go("parse_place", ts, p, <<>>)
  IN  IF ~place.ok THEN place
      ELSE IF HasTok(ts, place.pos)
        THEN IF ts[place.pos].node.kind = "Ass"
               THEN LET rhs == go("parse_ml_expr", ts, place.pos + 1, <<>>)
                    IN  IF ~rhs.ok THEN rhs
                        ELSE Ok(Assn(place.val, rhs.val), rhs.pos)
               ELSE IF place.val.kind = "Single"
                      THEN Ok(Stmt(place.val.node), place.pos)
                      ELSE Err(UnusedPlaces, place.pos)
        ELSE IF place.val.kind = "Single"
               THEN Ok(Stmt(place.val.node), place.pos)
               ELSE Err(UnusedPlaces, place.pos)

parse_assn(ts, p) ==
  LET place == go("parse_place", ts, p, <<>>)
  IN  IF ~place.ok THEN place
      ELSE IF HasTok(ts, place.pos)
        THEN IF ts[place.pos].node.kind = "Ass"
               THEN LET rhs == go("parse_ml_expr", ts, place.pos + 1, <<>>)
                    IN  IF ~rhs.ok THEN rhs
                        ELSE Ok(Assn(place.val, rhs.val), rhs.pos)
               ELSE IF place.val.kind = "Single"
                      THEN Ok(Stmt(place.val.node), place.pos)
                      ELSE Err(UnusedPlaces, place.pos)
        ELSE Err(UnexpectedEOF, place.pos)

parse_stmt(ts, p) ==
  IF HasTok(ts, p)
    THEN LET k == ts[p].node.kind
         IN  CASE k = "Break" -> Ok(Leaf("Break"), p + 1)
               [] k = "Continue" -> Ok(Leaf("Continue"), p + 1)
               [] k = "If" ->
                    LET cond == go("parse_bin_expr", ts, p + 1, <<>>)
                    IN  IF ~cond.ok THEN cond ELSE
                    LET body == go("parse_block", ts, cond.pos, <<>>)
                    IN  IF ~body.ok THEN body
                        ELSE Ok(If(cond.val, body.val, <<>>), body.pos)
               [] k = "Else" ->
                    LET u == use_token(ts, p + 1, "If")
                    IN  IF u.hit
                          THEN LET cond == go("parse_bin_expr", ts, u.pos, <<>>)
                               IN  IF ~cond.ok THEN cond ELSE
                               LET body == go("parse_block", ts, cond.pos, <<>>)
                               IN  IF ~body.ok THEN body
                                   ELSE Ok(ElseIf(cond.val, body.val), body.pos)
                          ELSE LET body == go("parse_block", ts, u.pos, <<>>)
                               IN  IF ~body.ok THEN body
                                   ELSE Ok(Else(body.val), body.pos)
               [] k = "For" ->
                    LET decl == parse_decl(ts, p + 1)
                    IN  IF ~decl.ok THEN decl ELSE
                    LET a == require_token(ts, decl.pos, "In")
                    IN  IF ~a.ok THEN a ELSE
                    LET expr == go("parse_il_expr", ts, a.pos, <<>>)
                    IN  IF ~expr.ok THEN expr ELSE
                    LET body == go("parse_block", ts, expr.pos, <<>>)
                    IN  IF ~body.ok THEN body
                        ELSE Ok(For(decl.val, expr.val, body.val), body.pos)
               [] k = "While" ->
                    LET expr == go("parse_il_expr", ts, p + 1, <<>>)
                    IN  IF ~expr.ok THEN expr ELSE
                    LET body == go("parse_block", ts, expr.pos, <<>>)
                    IN  IF ~body.ok THEN body
                        ELSE Ok(While(expr.val, body.val), body.pos)
               [] k = "Loop" ->
                    LET body == go("parse_block", ts, p + 1, <<>>)
                    IN  IF ~body.ok THEN body ELSE Ok(Loop(body.val), body.pos)
               [] k = "Return" ->
                    IF peek_token(ts, p + 1, "End")
                      THEN Ok(Return(<<>>), p + 1)
                      ELSE LET val == go("parse_ml_expr", ts, p + 1, <<>>)
                           IN  IF ~val.ok THEN val
                               ELSE Ok(Return(<<val.val>>), val.pos)
               [] k = "Pass" -> Ok(Leaf("Pass"), p + 1)
               [] k \in {"Func", "Catch"} ->
                    LET expr == go("parse_ml_expr", ts, p, <<>>)
                    IN  IF ~expr.ok THEN expr ELSE Ok(Stmt(expr.val), expr.pos)
               [] OTHER -> go("parse_assn", ts, p, <<>>)
    ELSE Err(UnexpectedEOF, p)

\* `while !peek_token(it, Token::Exit)` of parse_block
block_loop(ts, p, nodes) ==
  IF peek_token(ts, p, "Exit") THEN Ok(nodes, p)
  ELSE LET stmt == go("parse_stmt", ts, p, <<>>)
       IN  IF ~stmt.ok THEN stmt ELSE
       LET a == require_token(ts, stmt.pos, "End")
       IN  IF ~a.ok THEN a ELSE go("block_loop", ts, a.pos, Append(nodes, stmt.val))

parse_block(ts, p) ==
  LET a == require_token(ts, p, "Enter")
  IN  IF ~a.ok THEN a ELSE
  LET nodes == go("block_loop", ts, a.pos, <<>>)
  IN  IF ~nodes.ok THEN nodes ELSE
  LET b == require_token(ts, nodes.pos, "Exit")
  IN  IF ~b.ok THEN b ELSE Ok(nodes.val, b.pos)

\* `while !peek_token(&mut it, Token::EOF)` of parse
parse_loop(ts, p, nodes) ==
  IF peek_token(ts, p, "EOF") THEN Ok(Block(nodes), p)
  ELSE LET stmt == go("parse_stmt", ts, p, <<>>)
       IN  IF ~stmt.ok THEN stmt ELSE
       LET a == require_token(ts, stmt.pos, "End")
       IN  IF ~a.ok THEN a ELSE go("parse_loop", ts, a.pos, Append(nodes, stmt.val))

go(f, ts, p, a) ==
  CASE f = "parse_ml_expr" -> parse_ml_expr(ts, p)
    [] f = "parse_il_expr" -> parse_il_expr(ts, p)
    [] f = "parse_bin_expr" -> parse_bin_expr(ts, p)
    [] f = "bin_loop" -> bin_loop(ts, p, a.expr, a.break_left)
    [] f = "parse_un_expr" -> parse_un_expr(ts, p)
    [] f = "fn_args_loop" -> fn_args_loop(ts, p, a)
    [] f = "parse_fn_args" -> parse_fn_args(ts, p)
    [] f = "simple_loop" -> simple_loop(ts, p, a)
    [] f = "parse_simple" -> parse_simple(ts, p)
    [] f = "parse_atom" -> parse_atom(ts, p)
    [] f = "place_pieces" -> place_pieces(ts, p, a)
    [] f = "parse_place" -> parse_place(ts, p)
    [] f = "parse_assn" -> parse_assn(ts, p)
    [] f = "parse_stmt" -> parse_stmt(ts, p)
    [] f = "block_loop" -> block_loop(ts, p, a)
    [] f = "parse_block" -> parse_block(ts, p)
    [] f = "parse_loop" -> parse_loop(ts, p, a)

parse(ts) == parse_loop(ts, 1, <<>>)

(***************************************************************************)
(* The semantic checker (src/semck.rs)                                     *)
(*                                                                         *)
(* `self` is the SemChecker; its field `visited` is a history of the nodes *)
(* handed to is_place, in order (not a field of the program).              *)
(***************************************************************************)
SemChecker_new == [in_loop |-> FALSE, has_if |-> FALSE, visited |-> <<>>]

CkOk(self) == [ok |-> TRUE, err |-> "", self |-> self]
CkErr(e, self) == [ok |-> FALSE, err |-> e, self |-> self]

is_place(node) == node.kind \in {"Name", "Index"}

RECURSIVE check_place(_, _), check_places(_, _)
\* check_places looking at the first piece only
check_places_first(self, places) ==
  IF places = <<>> THEN CkOk(self) ELSE check_place(self, Head(places))

\* `for pl in places { self.check_place(&pl)?; }`
check_places(self, places) ==
  IF places = <<>> THEN CkOk(self)
  ELSE LET r == check_place(self, Head(places))
       IN  IF ~r.ok THEN r ELSE check_places(r.self, Tail(places))

check_place(self, place) ==
  IF place.kind = "Single"
    THEN LET seen == [self EXCEPT !.visited = Append(@, place.node)]
         IN  IF is_place(place.node) THEN CkOk(seen) ELSE CkErr("NotPlace", seen)
    ELSE check_places(self, place.places)

RECURSIVE check(_, _), check_list(_, _)
\* `for mut n in ls { self.check(&mut n)?; }`
check_list(self, ls) ==
  IF ls = <<>> THEN CkOk(self)
  ELSE LET r == check(self, Head(ls))
       IN  IF ~r.ok THEN r ELSE check_list(r.self, Tail(ls))

\* the loop arm putting back the flag it found on entry
check_loop_body_restore(self, body) ==
  LET r == check_list([self EXCEPT !.in_loop = TRUE], body)
  IN  IF ~r.ok THEN r ELSE CkOk([r.self EXCEPT !.in_loop = self.in_loop])

\* the body of a Loop, While or For arm
check_loop_body(self, body) ==
  LET r == check_list([self EXCEPT !.in_loop = TRUE], body)
  IN  IF ~r.ok THEN r ELSE CkOk([r.self EXCEPT !.in_loop = FALSE])

check(self, node) ==
  CASE node.kind = "Stmt" -> check(self, node.node)
    [] node.kind \in {"Block", "Catch"} -> check_list(self, node.list)
    [] node.kind = "Loop" -> check_loop_body(self, node.body)
    [] node.kind = "While" -> check_loop_body(self, node.body)
    [] node.kind = "For" -> check_loop_body(self, node.body)
    [] node.kind \in {"Break", "Continue"} ->
         IF ~self.in_loop THEN CkErr("NotInLoop", self) ELSE CkOk(self)
    [] node.kind = "Assn" -> check_place(self, node.lhs)
    [] OTHER -> CkOk(self)

(***************************************************************************)
(* The module pipeline (src/module.rs)                                     *)
(***************************************************************************)

\* the tokens hashed with their spans
hashable_tokens_spanned(ts) ==
  [i \in 1..Len(ts) |-> [kind |-> ts[i].node.kind,
                         val |-> <<ts[i].node.val, ts[i].span>>]]

\* `tokens.iter().map(|x| x.node.clone()).collect()`
hashable_tokens(ts) == [i \in 1..Len(ts) |-> ts[i].node]

\* bincode's encoding of the token vector: an injective listing of each
\* token's variant and payload
serialize(nodes) == [i \in 1..Len(nodes) |-> <<nodes[i].kind, nodes[i].val>>]

\* the 8-byte Blake2b digest of `bytes`: a deterministic function of the
\* bytes and of nothing else; the model keeps digests of different inputs
\* apart
Blake2b8(bytes) == [digest_of |-> bytes]

ModuleOk(hash) == [ok |-> TRUE, lex_hash |-> hash]
ModuleErr(stage, why) == [ok |-> FALSE, stage |-> stage, why |-> why]

(***************************************************************************)
(* State                                                                   *)
(***************************************************************************)
VARIABLES
  tokens,    \* the token vector handed to the parser
  pc,        \* where the program is
  it,        \* the cursor of a ParseIter driven by a direct caller
  mark,      \* history: the cursor before the last direct parser call
  expr,      \* parse_bin_expr's locals: [expr, break_left, last]
  res,       \* the last value a parser function returned
  ast,       \* the tree handed to the checker
  place,     \* places of an assignment under construction
  ck,        \* what SemChecker::check returned
  lex_hash,  \* Module::new's lex_hash
  out,       \* what Module::new returned
  ran,       \* history: the stages Module::new has run
  prev       \* history: the previous file's tokens, lex_hash and result

vars == <<tokens, pc, it, mark, expr, res, ast, place, ck, lex_hash, out, ran, prev>>

Unset == [kind |-> "Unset"]

(***************************************************************************)
(* Bounds and input alphabets                                              *)
(***************************************************************************)
MaxLen == 4

Keywords ==
  {"Add", "Sub", "Mul", "Div", "Car", "Not", "Neg", "Pal", "Par", "Sql",
   "Sqr", "Dot", "Col", "Com", "Ass", "Or", "If", "Else", "For", "While",
   "Loop", "Break", "Continue", "Return", "Pass", "Func", "Catch", "In",
   "Null", "Table", "Enter", "Exit", "End", "EOF"}

AllTokens ==
  {Tok(k) : k \in Keywords}
    \cup {Lit("Bool", "true"), Lit("Float", "1.3"), Lit("Int", 2),
          Lit("Str", "s"), Lit("Name", "a")}

(***************************************************************************)
(* Module::new                                                             *)
(***************************************************************************)

\* the parser has consumed every token of `ts` and asked for another one
Hungry(r, ts) == r.pos > Len(ts)

\* lexer::lex produces the next token.  The parser never looks further than
\* one token ahead, so a token after the one that decided its result cannot
\* change it: tokens are added only while the parser would use them.
Lex(alphabet, spans, maxlen, hungry) ==
  /\ pc = "lex"
  /\ Len(tokens) < maxlen
  /\ hungry
  /\ \E t \in alphabet, s \in spans : tokens' = Append(tokens, Spanned(t, s))
  /\ UNCHANGED <<pc, it, mark, expr, res, ast, place, ck, lex_hash, out, ran, prev>>

LexToken == Lex(AllTokens, {0}, MaxLen, Hungry(parse(tokens), tokens))

\* module.rs 64-77
Serialize ==
  /\ pc = "lex"
  /\ ran' = Append(ran, "serialize")
  /\ \E token_bytes_ok \in BOOLEAN :
       IF token_bytes_ok
         THEN /\ lex_hash' = Blake2b8(serialize(hashable_tokens(tokens)))
              /\ pc' = "parse"
              /\ out' = out
         ELSE /\ out' = ModuleErr("BincodeError", "why")
              /\ pc' = "returned"
              /\ lex_hash' = lex_hash
  /\ UNCHANGED <<tokens, it, mark, expr, res, ast, place, ck, prev>>

\* module.rs 79-82
Parse ==
  /\ pc = "parse"
  /\ ran' = Append(ran, "parse")
  /\ res' = parse(tokens)
  /\ IF res'.ok
       THEN ast' = res'.val /\ pc' = "check" /\ out' = out
       ELSE /\ out' = ModuleErr("ParseError", res'.val)
            /\ pc' = "returned"
            /\ ast' = ast
  /\ UNCHANGED <<tokens, it, mark, expr, place, ck, lex_hash, prev>>

\* Check without the early return on Err
Check_no_return ==
  /\ pc = "check"
  /\ ran' = Append(ran, "check")
  /\ ck' = check(SemChecker_new, ast)
  /\ pc' = "compile"
  /\ UNCHANGED <<tokens, it, mark, expr, res, ast, place, lex_hash, out, prev>>

\* module.rs 84-88
Check ==
  /\ pc = "check"
  /\ ran' = Append(ran, "check")
  /\ ck' = check(SemChecker_new, ast)
  /\ IF ck'.ok
       THEN pc' = "compile" /\ out' = out
       ELSE out' = ModuleErr("CheckError", ck'.err) /\ pc' = "returned"
  /\ UNCHANGED <<tokens, it, mark, expr, res, ast, place, lex_hash, prev>>

\* module.rs 90-100; the compiler is an external collaborator
Compile ==
  /\ pc = "compile"
  /\ ran' = Append(ran, "compile")
  /\ \E compiled \in BOOLEAN :
       out' = IF compiled THEN ModuleOk(lex_hash)
                          ELSE ModuleErr("CompileError", "why")
  /\ pc' = "returned"
  /\ UNCHANGED <<tokens, it, mark, expr, res, ast, place, ck, lex_hash, prev>>

(***************************************************************************)
(* parse_bin_expr called on an expression, one pass of its loop at a time  *)
(***************************************************************************)
MaxExprLen == 7

ExprOps == {Tok(k) : k \in {"Add", "Sub", "Mul", "Div", "Car"}}

\* the literals of the source text are 2, 3, 4, .. from left to right
NextInt(ts) == 2 + Cardinality({i \in 1..Len(ts) : ts[i].node.kind = "Int"})

ExprTokens(ts) == ExprOps \cup {Tok("Pal"), Tok("Par"), Lit("Int", NextInt(ts))}

LexExpr ==
  Lex(ExprTokens(tokens), {0}, MaxExprLen,
      Hungry(parse_bin_expr(tokens, 1), tokens))

\* parser.rs 214-218; `mark` keeps the operands and operators read so far
BinBegin ==
  /\ pc = "lex"
  /\ \E first \in {parse_un_expr(tokens, 1)} :
       IF first.ok
         THEN /\ expr' = [expr |-> first.val, break_left |-> FALSE]
              /\ it' = first.pos
              /\ pc' = "bin_loop"
              /\ mark' = [operands |-> <<first.val>>, ops |-> <<>>,
                          old |-> Unset, broke_left |-> FALSE]
              /\ res' = res
         ELSE /\ res' = first
              /\ pc' = "bin_done"
              /\ UNCHANGED <<expr, it, mark>>
  /\ UNCHANGED <<tokens, ast, place, ck, lex_hash, out, ran, prev>>

\* parser.rs 220-289: one pass of the loop
BinStep ==
  /\ pc = "bin_loop"
  /\ HasTok(tokens, it)
  /\ op_precedence(tokens[it].node).assoc # "None"
  /\ \E tok \in {tokens[it].node}, rhs \in {parse_un_expr(tokens, it + 1)} :
       IF ~rhs.ok
         THEN /\ res' = rhs
              /\ pc' = "bin_done"
              /\ UNCHANGED <<expr, it, mark>>
         ELSE /\ mark' = [operands |-> Append(mark.operands, rhs.val),
                          ops |-> Append(mark.ops, tok),
                          old |-> expr.expr,
                          broke_left |-> expr.break_left]
              /\ \E c \in {combine(expr.break_left, expr.expr, tok, rhs.val)} :
                   IF c.brk
                     THEN /\ res' = Ok(c.expr, rhs.pos)
                          /\ pc' = "bin_done"
                          /\ UNCHANGED <<expr, it>>
                     ELSE /\ expr' = [expr |-> c.expr, break_left |-> TRUE]
                          /\ it' = rhs.pos
                          /\ UNCHANGED <<res, pc>>
  /\ UNCHANGED <<tokens, ast, place, ck, lex_hash, out, ran, prev>>

\* parser.rs 220-225, 291: the loop ends and the tree is returned
BinReturn ==
  /\ pc = "bin_loop"
  /\ ~(HasTok(tokens, it) /\ op_precedence(tokens[it].node).assoc # "None")
  /\ res' = Ok(expr.expr, it)
  /\ pc' = "bin_done"
  /\ UNCHANGED <<tokens, it, mark, expr, ast, place, ck, lex_hash, out, ran, prev>>

NextExpr == LexExpr \/ BinBegin \/ BinStep \/ BinReturn

\* the loop taken one pass at a time returns what the function returns
BinStepsAgree == pc = "bin_done" => res = parse_bin_expr(tokens, 1)

(***************************************************************************)
(* parse_bin_expr called on an expression with parentheses                 *)
(***************************************************************************)
MaxParenLen == 9

ParenOps == {Tok(k) : k \in {"Add", "Mul", "Car"}}

ParenTokens(ts) == ParenOps \cup {Tok("Pal"), Tok("Par"), Lit("Int", NextInt(ts))}

LexParen ==
  Lex(ParenTokens(tokens), {0}, MaxParenLen,
      Hungry(parse_bin_expr(tokens, 1), tokens))

\* `parse_bin_expr(&mut it)` on the tokens lexed
ParseExpr ==
  /\ pc = "lex"
  /\ res' = parse_bin_expr(tokens, 1)
  /\ pc' = "bin_done"
  /\ UNCHANGED <<tokens, it, mark, expr, ast, place, ck, lex_hash, out, ran, prev>>

NextParen == LexParen \/ ParseExpr

(***************************************************************************)
(* parse_quark called on a ParseIter by a direct caller (tests/parser.rs)  *)
(***************************************************************************)
MaxQuarkLen == 2

LexQuark == Lex(AllTokens, {0}, MaxQuarkLen, TRUE)

\* `tokens.iter().peekable()`
IterBegin ==
  /\ pc = "lex"
  /\ pc' = "iter"
  /\ it' = 1
  /\ UNCHANGED <<tokens, mark, expr, res, ast, place, ck, lex_hash, out, ran, prev>>

\* `parse_quark(&mut it)`
CallParseQuark ==
  /\ pc = "iter"
  /\ mark' = [it |-> it]
  /\ res' = parse_quark(tokens, it)
  /\ it' = res'.pos
  /\ UNCHANGED <<tokens, pc, expr, ast, place, ck, lex_hash, out, ran, prev>>

\* `it.next()`
IterNext ==
  /\ pc = "iter"
  /\ HasTok(tokens, it)
  /\ it' = it + 1
  /\ UNCHANGED <<tokens, pc, mark, expr, res, ast, place, ck, lex_hash, out, ran, prev>>

NextQuark == LexQuark \/ IterBegin \/ CallParseQuark \/ IterNext

(***************************************************************************)
(* Module::new on statements of if / else                                  *)
(***************************************************************************)
MaxStmtLen == 10

StmtTokens ==
  {Tok(k) : k \in {"If", "Else", "Enter", "Exit", "End", "EOF"}}
    \cup {Lit("Name", "a")}

LexStmt == Lex(StmtTokens, {0}, MaxStmtLen, Hungry(parse(tokens), tokens))

NextStmt == LexStmt \/ Serialize \/ Parse \/ Check \/ Compile

(***************************************************************************)
(* Module::new on one file after another                                   *)
(***************************************************************************)
MaxHashLen == 3

HashTokens == {Tok(k) : k \in {"Break", "End", "EOF"}}

\* where a token starts in its file
Spans == {0, 1}

LexSpanned == Lex(HashTokens, Spans, MaxHashLen, Hungry(parse(tokens), tokens))

\* Module::from_string is called again on the same CodeMap (module.rs 41-44);
\* `prev` keeps what the call before was given and what it produced
NewFile ==
  /\ pc = "returned"
  /\ prev' = [tokens |-> tokens, lex_hash |-> lex_hash, out |-> out]
  /\ tokens' = <<>>
  /\ pc' = "lex"
  /\ res' = Unset
  /\ ast' = Unset
  /\ ck' = Unset
  /\ lex_hash' = Unset
  /\ out' = Unset
  /\ ran' = <<>>
  /\ UNCHANGED <<it, mark, expr, place>>

NextHash == LexSpanned \/ Serialize \/ Parse \/ Check \/ Compile \/ NewFile

(***************************************************************************)
(* SemChecker::check called on a tree                                      *)
(*                                                                         *)
(* The tree is put together from the leaves up: a statement is added at    *)
(* the end of the list, or the last k statements become the body of a new  *)
(* node.  Every tree over the node kinds below is built this way.          *)
(***************************************************************************)
MaxNodes == 3
MaxPlaces == 5

NameA == LitNode("Name", "a")
Two == LitNode("Int", 2)

LeafStmts ==
  {Leaf("Break"), Leaf("Continue"), Leaf("Pass"),
   Assn(PlaceSingle(NameA), Two), Assn(PlaceSingle(Two), Two)}

BodyKinds ==
  {"Loop", "While", "For", "If", "ElseIf", "Else", "Catch", "Func",
   "AssnFunc", "AssnCatch"}

\* the statement of kind k with the statements `b` as its child list
WithBody(k, b) ==
  CASE k = "Loop" -> Loop(b)
    [] k = "While" -> While(NameA, b)
    [] k = "For" -> For(VarSingle("a"), NameA, b)
    [] k = "If" -> If(NameA, b, <<>>)
    [] k = "ElseIf" -> ElseIf(NameA, b)
    [] k = "Else" -> Else(b)
    [] k = "Catch" -> Stmt(Catch(b))
    [] k = "Func" -> Stmt(Func(<<>>, b))
    [] k = "AssnFunc" -> Assn(PlaceSingle(NameA), Func(<<>>, b))
    [] k = "AssnCatch" -> Assn(PlaceSingle(NameA), Catch(b))

PlaceLeaves == {NameA, Index(NameA, Two), Two}

RECURSIVE PlaceSize(_), PlacesSize(_)
PlacesSize(ps) == IF ps = <<>> THEN 0 ELSE PlaceSize(Head(ps)) + PlacesSize(Tail(ps))
PlaceSize(pl) == IF pl.kind = "Single" THEN 1 ELSE 1 + PlacesSize(pl.places)

RECURSIVE NodeCount(_), ListCount(_)
ListCount(ls) == IF ls = <<>> THEN 0 ELSE NodeCount(Head(ls)) + ListCount(Tail(ls))
NodeCount(n) ==
  CASE n.kind \in {"Loop", "While", "For", "If", "ElseIf", "Else", "Func"} ->
         1 + ListCount(n.body)
    [] n.kind = "Catch" -> 1 + ListCount(n.list)
    [] n.kind = "Stmt" -> NodeCount(n.node)
    [] n.kind = "Assn" -> IF n.rhs.kind \in {"Func", "Catch"} THEN NodeCount(n.rhs) ELSE 1
    [] OTHER -> 1

LastK(seq, k) == SubSeq(seq, Len(seq) - k + 1, Len(seq))
ButLastK(seq, k) == SubSeq(seq, 1, Len(seq) - k)

AddStmt ==
  /\ pc = "build"
  /\ ListCount(ast) < MaxNodes
  /\ \E leaf \in LeafStmts : ast' = Append(ast, leaf)
  /\ UNCHANGED <<tokens, pc, it, mark, expr, res, place, ck, lex_hash, out, ran, prev>>

WrapStmts ==
  /\ pc = "build"
  /\ ListCount(ast) < MaxNodes
  /\ \E kind \in BodyKinds, k \in 0..Len(ast) :
       ast' = Append(ButLastK(ast, k), WithBody(kind, LastK(ast, k)))
  /\ UNCHANGED <<tokens, pc, it, mark, expr, res, place, ck, lex_hash, out, ran, prev>>

AddPlace ==
  /\ pc = "build"
  /\ PlacesSize(place) < MaxPlaces
  /\ \E leaf \in PlaceLeaves : place' = Append(place, PlaceSingle(leaf))
  /\ UNCHANGED <<tokens, pc, it, mark, expr, res, ast, ck, lex_hash, out, ran, prev>>

\* a Place::Multi has at least one piece (parser.rs 531-540)
WrapPlaces ==
  /\ pc = "build"
  /\ PlacesSize(place) < MaxPlaces
  /\ \E k \in 1..Len(place) :
       place' = Append(ButLastK(place, k), PlaceMulti(LastK(place, k)))
  /\ UNCHANGED <<tokens, pc, it, mark, expr, res, ast, ck, lex_hash, out, ran, prev>>

\* check visits the statement `place = 2` on a fresh checker
CheckAssn ==
  /\ pc = "build"
  /\ Len(place) = 1
  /\ ast' = Assn(place[1], Two)
  /\ ck' = check(SemChecker_new, ast')
  /\ pc' = "checked"
  /\ UNCHANGED <<tokens, it, mark, expr, res, place, lex_hash, out, ran, prev>>

\* `SemChecker::new().check(&mut ast)` on the root Block
RunCheck ==
  /\ pc = "build"
  /\ ck' = check(SemChecker_new, Block(ast))
  /\ pc' = "checked"
  /\ UNCHANGED <<tokens, it, mark, expr, res, ast, place, lex_hash, out, ran, prev>>

InitCheck ==
  /\ tokens = <<>>
  /\ pc = "build"
  /\ it = 1
  /\ mark = Unset
  /\ expr = Unset
  /\ res = Unset
  /\ ast = <<>>
  /\ place = <<>>
  /\ ck = Unset
  /\ lex_hash = Unset
  /\ out = Unset
  /\ ran = <<>>
  /\ prev = Unset

(***************************************************************************)
(* The Loop / While / For arm of SemChecker::check, one statement of the   *)
(* body at a time (semck.rs 38-66)                                         *)
(*                                                                         *)
(* The tree is a single loop statement, checked by a fresh checker.        *)
(*   pc   "build" -> "loop_body" -> "loop_done"                            *)
(*   it   the index of the next statement of the body                      *)
(*   ck   the checker and the verdict so far                               *)
(*   mark one record per statement checked: the flag before the call, the  *)
(*        verdict, and the flag after it (a history)                       *)
(***************************************************************************)
LoopKinds == {"Loop", "While", "For"}

\* `self.in_loop = true;`
LoopEnter ==
  /\ pc = "build"
  /\ Len(ast) = 1
  /\ ast[1].kind \in LoopKinds
  /\ ck' = CkOk([SemChecker_new EXCEPT !.in_loop = TRUE])
  /\ it' = 1
  /\ mark' = <<>>
  /\ pc' = "loop_body"
  /\ UNCHANGED <<tokens, expr, res, ast, place, lex_hash, out, ran, prev>>

\* `self.check(&mut n)?;` for the next n of the body
LoopStep ==
  /\ pc = "loop_body"
  /\ it <= Len(ast[1].body)
  /\ ck' = check(ck.self, ast[1].body[it])
  /\ mark' = Append(mark, [before |-> ck.self.in_loop, ok |-> ck'.ok,
                           err |-> ck'.err, after |-> ck'.self.in_loop])
  /\ it' = it + 1
  /\ pc' = IF ck'.ok THEN "loop_body" ELSE "loop_done"
  /\ UNCHANGED <<tokens, expr, res, ast, place, lex_hash, out, ran, prev>>

\* `self.in_loop = false;` and the `Ok(())` that ends check
LoopExit ==
  /\ pc = "loop_body"
  /\ it > Len(ast[1].body)
  /\ ck' = CkOk([ck.self EXCEPT !.in_loop = FALSE])
  /\ pc' = "loop_done"
  /\ UNCHANGED <<tokens, it, mark, expr, res, ast, place, lex_hash, out, ran, prev>>

NextLoop == AddStmt \/ WrapStmts \/ LoopEnter \/ LoopStep \/ LoopExit

\* the steps return what one call of check on the loop statement returns
LoopStepsAgree ==
  pc = "loop_done" => ck = check(SemChecker_new, ast[1])

NextCheck == AddStmt \/ WrapStmts \/ RunCheck

NextPlace == AddPlace \/ WrapPlaces \/ CheckAssn

Init ==
  /\ tokens = <<>>
  /\ pc = "lex"
  /\ it = 1
  /\ mark = Unset
  /\ expr = Unset
  /\ res = Unset
  /\ ast = Unset
  /\ place = <<>>
  /\ ck = Unset
  /\ lex_hash = Unset
  /\ out = Unset
  /\ ran = <<>>
  /\ prev = Unset

Next == LexToken \/ Serialize \/ Parse \/ Check \/ Compile

Spec == Init /\ [][Next]_vars
SpecExpr == Init /\ [][NextExpr]_vars
SpecQuark == Init /\ [][NextQuark]_vars
SpecStmt == Init /\ [][NextStmt]_vars
SpecHash == Init /\ [][NextHash]_vars
SpecCheck == InitCheck /\ [][NextCheck]_vars
SpecPlace == InitCheck /\ [][NextPlace]_vars
SpecLoop == InitCheck /\ [][NextLoop]_vars
SpecParen == Init /\ [][NextParen]_vars

(***************************************************************************)
(* Binary expressions: C1, C2, C10                                         *)
(***************************************************************************)

\* the ranks and associativities the specification registers
RefRank(op) ==
  CASE op.kind \in {"Add", "Sub"} -> 10
    [] op.kind \in {"Mul", "Div"} -> 20
    [] op.kind = "Car" -> 30

RefRight(op) == op.kind = "Car"

\* a reference precedence parser over the operands and operators of a chain:
\* `lhs` is the tree built so far, `i` the index of the next operator and
\* `min` the lowest rank this level accepts
RECURSIVE ref_climb(_, _, _, _, _)
ref_climb(operands, ops, lhs, i, min) ==
  IF i > Len(ops) \/ RefRank(ops[i]) < min
    THEN [tree |-> lhs, next |-> i]
    ELSE LET op == ops[i]
             r == ref_climb(operands, ops, operands[i + 1], i + 1,
                            IF RefRight(op) THEN RefRank(op) ELSE RefRank(op) + 1)
         IN  ref_climb(operands, ops, BinExpr(lhs, op, r.tree), r.next, min)

RefTree(operands, ops) == ref_climb(operands, ops, operands[1], 1, 0).tree

IntNode(n) == LitNode("Int", n)
IntTok(n) == Lit("Int", n)
AddOp == Tok("Add")
SubOp == Tok("Sub")
MulOp == Tok("Mul")
CarOp == Tok("Car")

\* the token kinds and payloads of the vector
Kinds(ts) == [i \in 1..Len(ts) |-> ts[i].node]

\* C1: for every chain of unary operands joined by registered binary
\* operators, of any length, parse_bin_expr returns the tree of the
\* reference precedence parser (higher rank binds tighter, Add/Sub and
\* Mul/Div left-associative, Car right-associative).
C1_MatchesReference ==
  (pc = "bin_done" /\ res.ok) => res.val = RefTree(mark.operands, mark.ops)

\* C2: a chain of exactly two operators `a op1 b op2 c` is grouped as
\* (a op1 b) op2 c when op1 has the higher rank or both have the same rank
\* and are left-associative, and as a op1 (b op2 c) when op2 has the higher
\* rank or both are Car; the four literal cases of the specification hold.
C2_TwoOperators ==
  (pc = "bin_done" /\ res.ok /\ Len(mark.ops) = 2) =>
    LET a == mark.operands[1]
        b == mark.operands[2]
        c == mark.operands[3]
        op1 == mark.ops[1]
        op2 == mark.ops[2]
    IN  /\ (\/ RefRank(op1) > RefRank(op2)
            \/ RefRank(op1) = RefRank(op2) /\ ~RefRight(op1) /\ ~RefRight(op2))
             => res.val = BinExpr(BinExpr(a, op1, b), op2, c)
        /\ (RefRank(op2) > RefRank(op1) \/ (op1 = CarOp /\ op2 = CarOp))
             => res.val = BinExpr(a, op1, BinExpr(b, op2, c))
        /\ Kinds(tokens) = <<IntTok(2), AddOp, IntTok(3), MulOp, IntTok(4)>>
             => res.val = BinExpr(IntNode(2), AddOp, BinExpr(IntNode(3), MulOp, IntNode(4)))
        /\ Kinds(tokens) = <<IntTok(2), MulOp, IntTok(3), AddOp, IntTok(4)>>
             => res.val = BinExpr(BinExpr(IntNode(2), MulOp, IntNode(3)), AddOp, IntNode(4))
        /\ Kinds(tokens) = <<IntTok(2), SubOp, IntTok(3), SubOp, IntTok(4)>>
             => res.val = BinExpr(BinExpr(IntNode(2), SubOp, IntNode(3)), SubOp, IntNode(4))
        /\ Kinds(tokens) = <<IntTok(2), CarOp, IntTok(3), CarOp, IntTok(4)>>
             => res.val = BinExpr(IntNode(2), CarOp, BinExpr(IntNode(3), CarOp, IntNode(4)))

\* `2 - 3 - 4` has been parsed
C2_Witness ==
  /\ pc = "bin_done"
  /\ res.ok
  /\ Kinds(tokens) = <<IntTok(2), SubOp, IntTok(3), SubOp, IntTok(4)>>
  /\ res.val = BinExpr(BinExpr(IntNode(2), SubOp, IntNode(3)), SubOp, IntNode(4))

\* what the last pass of the loop did with the tree `mark.old`
Wrapped ==
  expr.expr = BinExpr(mark.old, mark.ops[Len(mark.ops)],
                      mark.operands[Len(mark.operands)])

Attached ==
  expr.expr = BinExpr(mark.old.lhs, mark.old.op,
                      BinExpr(mark.old.rhs, mark.ops[Len(mark.ops)],
                              mark.operands[Len(mark.operands)]))

\* the condition as the claim words it: the new rank against the current one
ClaimedTopBinds(cur, new) ==
  \/ ~RefRight(cur) /\ ~RefRight(new) /\ RefRank(new) >= RefRank(cur)
  \/ RefRight(cur) /\ RefRight(new) /\ RefRank(new) > RefRank(cur)
  \/ RefRight(cur) /\ ~RefRight(new) /\ RefRank(new) >= RefRank(cur)
  \/ ~RefRight(cur) /\ RefRight(new) /\ RefRank(new) >= RefRank(cur)

\* the condition with the current rank against the new one
AmendedTopBinds(cur, new) ==
  \/ ~RefRight(cur) /\ ~RefRight(new) /\ RefRank(cur) >= RefRank(new)
  \/ RefRight(cur) /\ RefRight(new) /\ RefRank(cur) > RefRank(new)
  \/ RefRight(cur) /\ ~RefRight(new) /\ RefRank(cur) >= RefRank(new)
  \/ ~RefRight(cur) /\ RefRight(new) /\ RefRank(cur) >= RefRank(new)

\* C10 as stated: when the tree built so far is a BinExpr with operator cur
\* and the operator new arrives, the whole tree becomes new's left operand
\* exactly when rank(new) >= rank(cur) (rank(new) > rank(cur) when both are
\* right-associative); otherwise new is attached to the rightmost operand.
C10_TopBindsAsStated ==
  (pc = "bin_loop" /\ Len(mark.ops) > 0 /\ mark.old.kind = "BinExpr") =>
    IF ClaimedTopBinds(mark.old.op, mark.ops[Len(mark.ops)])
      THEN Wrapped ELSE Attached

\* C10 amended: when the tree built so far is a BinExpr that an earlier pass
\* of the loop built, with operator cur, the whole tree becomes new's left
\* operand exactly when rank(cur) >= rank(new) (rank(cur) > rank(new) when
\* both are right-associative); otherwise new is attached to the rightmost
\* operand.  A first operand is always wrapped.
C10_TopBindsAmended ==
  (pc = "bin_loop" /\ Len(mark.ops) > 0) =>
    IF mark.broke_left /\ mark.old.kind = "BinExpr"
      THEN IF AmendedTopBinds(mark.old.op, mark.ops[Len(mark.ops)])
             THEN Wrapped /\ ~Attached ELSE Attached /\ ~Wrapped
      ELSE Wrapped

\* `2 + 3 * 4`: Mul arrived at Add(2, 3) and was attached to its right operand
C10_Witness ==
  /\ pc = "bin_loop"
  /\ Len(mark.ops) = 2
  /\ mark.broke_left
  /\ mark.old = BinExpr(IntNode(2), AddOp, IntNode(3))
  /\ mark.ops[2] = MulOp
  /\ expr.expr = BinExpr(IntNode(2), AddOp, BinExpr(IntNode(3), MulOp, IntNode(4)))

(***************************************************************************)
(* Module::new: C5, C6                                                     *)
(***************************************************************************)
Stages == <<"serialize", "parse", "check", "compile">>

\* C5: Module::new runs serialize, parse, check, compile in this order and
\* stops at the first stage that fails: it returns the error variant of
\* exactly that stage, no later stage has run, and Ok(Module) is returned
\* only when all four stages succeeded.
C5_FailFast ==
  /\ ran = SubSeq(Stages, 1, Len(ran))
  /\ pc = "returned" =>
       IF out.ok
         THEN ran = Stages /\ lex_hash # Unset /\ res.ok /\ ck.ok
         ELSE CASE out.stage = "BincodeError" ->
                     ran = <<"serialize">> /\ lex_hash = Unset
                [] out.stage = "ParseError" ->
                     /\ ran = <<"serialize", "parse">>
                     /\ lex_hash # Unset /\ ~res.ok /\ out.why = res.val
                [] out.stage = "CheckError" ->
                     /\ ran = <<"serialize", "parse", "check">>
                     /\ lex_hash # Unset /\ res.ok /\ ~ck.ok /\ out.why = ck.err
                [] out.stage = "CompileError" ->
                     ran = Stages /\ lex_hash # Unset /\ res.ok /\ ck.ok
                [] OTHER -> FALSE
  /\ pc # "returned" => out = Unset

\* `break` at the top level: the check failed and compile never ran
C5_Witness ==
  /\ pc = "returned"
  /\ ~out.ok
  /\ out.stage = "CheckError"
  /\ out.why = "NotInLoop"
  /\ ran = <<"serialize", "parse", "check">>

Parsed == Len(ran) >= 2

RECURSIVE FreeBreak(_), FreeBreakIn(_)
FreeBreakIn(ls) == \E i \in 1..Len(ls) : FreeBreak(ls[i])

FreeBreak(n) ==
  CASE n.kind \in {"Break", "Continue"} -> TRUE
    [] n.kind \in {"Loop", "While", "For"} -> FALSE
    [] n.kind \in {"If", "ElseIf", "Else", "Func"} -> FreeBreakIn(n.body)
    [] n.kind \in {"Block", "Catch"} -> FreeBreakIn(n.list)
    [] n.kind = "Stmt" -> FreeBreak(n.node)
    [] n.kind = "Assn" -> FreeBreak(n.rhs)
    [] OTHER -> FALSE

\* C3: check on a fresh checker returns Err(NotInLoop) for every program
\* that contains a Break or Continue outside every loop body, wherever the
\* node sits: in an If/ElseIf/Else body, a Func body, a Catch block or the
\* right-hand side of an assignment (an invalid assignment target met
\* earlier in the traversal is reported first).
C3_FreeBreakRejected ==
  (pc = "checked" /\ FreeBreakIn(ast) /\ ck.err # "NotPlace") =>
    ~ck.ok /\ ck.err = "NotInLoop"

\* the nodes wrapped by the Place::Single leaves of a place, left to right
RECURSIVE PlaceNodes(_), PlacesNodes(_)
PlacesNodes(ps) ==
  IF ps = <<>> THEN <<>> ELSE PlaceNodes(Head(ps)) \o PlacesNodes(Tail(ps))

PlaceNodes(pl) ==
  IF pl.kind = "Single" THEN <<pl.node>> ELSE PlacesNodes(pl.places)

IsNameOrIndex(n) == n.kind = "Name" \/ n.kind = "Index"

\* the index of the first leaf that is neither a Name nor an Index, or 0
FirstInvalid(leaves) ==
  IF \A i \in 1..Len(leaves) : IsNameOrIndex(leaves[i])
    THEN 0
    ELSE CHOOSE i \in 1..Len(leaves) :
           /\ ~IsNameOrIndex(leaves[i])
           /\ \A j \in 1..(i - 1) : IsNameOrIndex(leaves[j])

\* C4: the check of an Assn statement succeeds if and only if every
\* Place::Single leaf of its lhs, at any depth of Place::Multi, wraps a Name
\* or an Index; otherwise it returns Err(NotPlace) and has looked at the
\* leaves up to the first invalid one, left to right, and at no other.
C4_AssnPlaces ==
  (pc = "checked" /\ ast.kind = "Assn") =>
    LET leaves == PlaceNodes(ast.lhs)
        bad == FirstInvalid(leaves)
    IN  IF bad = 0
          THEN ck.ok /\ ck.self.visited = leaves
          ELSE /\ ~ck.ok
               /\ ck.err = "NotPlace"
               /\ ck.self.visited = SubSeq(leaves, 1, bad)

\* `[[a], 2, a] = 2`: a valid leaf in a nested Multi, then an invalid one
C4_Witness ==
  /\ pc = "checked"
  /\ ast.kind = "Assn"
  /\ ast.lhs = PlaceMulti(<<PlaceMulti(<<PlaceSingle(NameA)>>),
                            PlaceSingle(Two), PlaceSingle(NameA)>>)
  /\ ~ck.ok
  /\ ck.err = "NotPlace"
  /\ ck.self.visited = <<NameA, Two>>

(***************************************************************************)
(* if / else: C7                                                           *)
(***************************************************************************)

\* a statement list that holds an Else or ElseIf right after an If, here or
\* in the body of one of its If, ElseIf or Else statements
RECURSIVE ElseBesideIf(_)
ElseBesideIf(ls) ==
  \/ \E i \in 1..(Len(ls) - 1) :
       ls[i].kind = "If" /\ ls[i + 1].kind \in {"Else", "ElseIf"}
  \/ \E i \in 1..Len(ls) :
       ls[i].kind \in {"If", "ElseIf", "Else"} /\ ElseBesideIf(ls[i].body)

\* C7: an `else` or `else if` clause that follows an `if` statement is
\* attached to the If node through its `els` field; it is not a separate
\* sibling statement of the enclosing block.
C7_ElseLinked ==
  (Parsed /\ res.ok) => ~ElseBesideIf(res.val.list)

(***************************************************************************)
(* lex_hash: C8                                                            *)
(***************************************************************************)

\* C8: two token streams that are equal after stripping every span give the
\* same lex_hash, whatever parse, check and compile made of them, and the
\* Module returned carries the hash computed before parsing.
C8_HashIgnoresSpans ==
  /\ (prev # Unset /\ prev.lex_hash # Unset /\ lex_hash # Unset
        /\ Kinds(prev.tokens) = Kinds(tokens))
       => lex_hash = prev.lex_hash
  /\ (pc = "returned" /\ out.ok) => out.lex_hash = lex_hash
  /\ (prev # Unset /\ prev.out.ok) => prev.out.lex_hash = prev.lex_hash

\* the same tokens at other positions: one call ended in Ok(Module), the
\* other in CompileError; both computed the same hash
C8_Witness ==
  /\ prev # Unset
  /\ pc = "returned"
  /\ tokens # <<>>
  /\ Kinds(prev.tokens) = Kinds(tokens)
  /\ prev.tokens # tokens
  /\ prev.out.ok
  /\ ~out.ok
  /\ lex_hash = prev.lex_hash

(***************************************************************************)
(* parse_quark: C9                                                         *)
(***************************************************************************)
Literals == {"Null", "Bool", "Float", "Int", "Str", "Name", "Table"}

\* the node of a literal token
NodeOf(tok) ==
  IF tok.kind \in {"Null", "Table"}
    THEN [kind |-> tok.kind]
    ELSE [kind |-> tok.kind, val |-> tok.val]

\* C9: parse_quark consumes exactly one token when the next token is a
\* literal and returns the matching node; for any other next token, End and
\* EOF included, it returns Err(UnexpectedToken(that token)) and leaves the
\* cursor where it was; it returns Err(UnexpectedEOF) only when no token is
\* left.
C9_ParseQuark ==
  (pc = "iter" /\ res # Unset) =>
    IF mark.it > Len(tokens)
      THEN res = Err(UnexpectedEOF, mark.it)
      ELSE IF tokens[mark.it].node.kind \in Literals
        THEN res = Ok(NodeOf(tokens[mark.it].node), mark.it + 1)
        ELSE res = Err(UnexpectedToken(tokens[mark.it].node), mark.it)

\* a literal was consumed, then the End token behind it was refused and left
C9_Witness ==
  /\ pc = "iter"
  /\ Kinds(tokens) = <<Tok("Table"), Tok("End")>>
  /\ mark = [it |-> 2]
  /\ res = Err(UnexpectedToken(Tok("End")), 2)
  /\ it = 2

(***************************************************************************)
(* The loop context is one flag: C11                                       *)
(***************************************************************************)

\* the traversal of the node runs a Loop, While or For arm
RECURSIVE RunsLoop(_)
RunsLoop(n) ==
  CASE n.kind \in LoopKinds -> TRUE
    [] n.kind = "Stmt" -> RunsLoop(n.node)
    [] n.kind \in {"Block", "Catch"} -> \E i \in 1..Len(n.list) : RunsLoop(n.list[i])
    [] OTHER -> FALSE

\* C11: the loop context is a flag, not a counter.  While check walks the
\* body of a loop statement: every statement whose traversal ran a loop arm
\* to its end leaves in_loop false; a Break or Continue of the body that
\* comes after such a statement is rejected with NotInLoop; a Break or
\* Continue that comes before every such statement is accepted; and check
\* returns Ok with in_loop false.
C11_FlagNotCounter ==
  pc \in {"loop_body", "loop_done"} =>
    LET body == ast[1].body
    IN  /\ \A k \in 1..Len(mark) :
             /\ (RunsLoop(body[k]) /\ mark[k].ok) => ~mark[k].after
             /\ body[k].kind \in {"Break", "Continue"} =>
                  IF \E j \in 1..(k - 1) : RunsLoop(body[j])
                    THEN ~mark[k].before /\ ~mark[k].ok /\ mark[k].err = "NotInLoop"
                    ELSE mark[k].before /\ mark[k].ok /\ mark[k].after
        /\ (pc = "loop_done" /\ ck.ok) => ~ck.self.in_loop

\* a Break or Continue was rejected after an inner loop that ran to its end
C11_Witness ==
  /\ pc = "loop_done"
  /\ Len(mark) = 2
  /\ ast[1].body[1].kind \in LoopKinds /\ mark[1].ok /\ ~mark[1].after
  /\ ast[1].body[2].kind \in {"Break", "Continue"}
  /\ ~mark[2].before
  /\ ~ck.ok /\ ck.err = "NotInLoop"

\* a Break or Continue was accepted ahead of the inner loop
C11_AcceptedBefore ==
  /\ pc = "loop_done"
  /\ Len(mark) = 2
  /\ ast[1].body[1].kind \in {"Break", "Continue"} /\ mark[1].ok
  /\ ast[1].body[2].kind \in LoopKinds
  /\ ck.ok

(***************************************************************************)
(* Parenthesised operands: C12                                             *)
(***************************************************************************)

\* the node and every node below it
RECURSIVE Subtrees(_)
Subtrees(n) ==
  {n} \cup
  CASE n.kind = "BinExpr" -> Subtrees(n.lhs) \cup Subtrees(n.rhs)
    [] n.kind = "UnExpr" -> Subtrees(n.val)
    [] n.kind = "Call" ->
         Subtrees(n.func) \cup UNION {Subtrees(n.args[i]) : i \in 1..Len(n.args)}
    [] OTHER -> {}

\* the integer literals of a tree
IntLeaves(n) == {t.val : t \in {u \in Subtrees(n) : u.kind = "Int"}}

\* the index of the `)` that closes the parenthesis opened before index j
\* at nesting depth d, or 0
RECURSIVE close_scan(_, _, _)
close_scan(ts, j, d) ==
  IF j > Len(ts) THEN 0
  ELSE CASE ts[j].node.kind = "Pal" -> close_scan(ts, j + 1, d + 1)
         [] ts[j].node.kind = "Par" -> IF d = 0 THEN j ELSE close_scan(ts, j + 1, d - 1)
         [] OTHER -> close_scan(ts, j + 1, d)

CloseOf(ts, i) == close_scan(ts, i + 1, 0)

\* the `(` at index i opens an operand (it does not follow a value, where it
\* would open the arguments of a call)
Grouping(ts, i) ==
  /\ ts[i].node.kind = "Pal"
  /\ i = 1 \/ ts[i - 1].node.kind \notin {"Int", "Par"}

\* the kinds of the tokens, in order
KindNames(ts) == [i \in 1..Len(ts) |-> ts[i].node.kind]

\* C12: when parse_bin_expr succeeds, every parenthesised operand it has
\* read is an intact subtree of the result: the tree that the text between
\* the parentheses parses to is a node of the result, and its literals are
\* exactly the literals written between the parentheses, whatever operators
\* come before or after the parentheses.
C12_ParenIntact ==
  (pc = "bin_done" /\ res.ok) =>
    \A i \in 1..Len(tokens) :
      (Grouping(tokens, i) /\ i < res.pos) =>
        LET j == CloseOf(tokens, i)
            inner == SubSeq(tokens, i + 1, j - 1)
            sub == parse_bin_expr(inner, 1)
        IN  /\ j # 0
            /\ sub.ok
            /\ sub.val \in Subtrees(res.val)
            /\ IntLeaves(sub.val) =
                 {inner[k].node.val : k \in {x \in 1..Len(inner) : inner[x].node.kind = "Int"}}

\* `2 * (3 + 4) ^ 5` was parsed: the sum stays whole under both operators
C12_Witness ==
  /\ pc = "bin_done"
  /\ KindNames(tokens) = <<"Int", "Mul", "Pal", "Int", "Add", "Int", "Par", "Car", "Int">>
  /\ res.ok
  /\ res.val = BinExpr(IntNode(2), MulOp,
                       BinExpr(BinExpr(IntNode(3), AddOp, IntNode(4)), CarOp, IntNode(5)))

\* `(2 + 3) * 4` was parsed to Mul(Add(2, 3), 4)
C12_Example ==
  (pc = "bin_done" /\ KindNames(tokens) = <<"Pal", "Int", "Add", "Int", "Par", "Mul", "Int">>) =>
    res.ok /\ res.val = BinExpr(BinExpr(IntNode(2), AddOp, IntNode(3)), MulOp, IntNode(4))

====
